---- MODULE Spec2Model ----
(***************************************************************************)
(* Model of src/rest.ts: Rest({owner, repo}) and its paginated iteration,  *)
(* classification and workflow-dispatch pipeline.                          *)
(*                                                                         *)
(* One run of iterateAllIssues is a single thread of control that only     *)
(* suspends at its awaits: the next page of the iterator, the per-issue    *)
(* action (which itself awaits the workflow-dispatch endpoint) and the     *)
(* inter-page sleep.  Each action of the model is the synchronous code     *)
(* between two such suspension points.                                     *)
(*                                                                         *)
(* Records of a page are immutable inputs.  A page arrives with the        *)
(* number and the pull_request marker of every record (what                *)
(* removePullRequests reads); the labels or the assignees of an issue are  *)
(* drawn when the issue is handed to the action that reads them, the first *)
(* place the code reads them.  An optional property that is absent         *)
(* (undefined or null) is a field missing from the record.                 *)
(***************************************************************************)
EXTENDS Integers, Sequences, FiniteSets, TLC

\* ------------------------------------------------------------------ bounds
\* pages the issue source yields at most in one run
MaxPages == 2
\* records in one page at most (per_page of the run)
MaxPageLen == 2
\* labels on one issue at most
MaxLabels == 2

\* --------------------------------------------------------------- constants
\* colour of an Esri product label, rest.ts:28
ProductColor == "006B75"
\* event_type of every dispatch, rest.ts:53
EventType == "SyncActionChanges"
\* inputs of the generic fixed-input dispatch, index.ts:9-12
FixedInputs == [label_name |-> "i18n-l10n", label_action |-> "added"]

\* types.ts: ActionResponse = "total" | "triggered" | "skipped" | "failed"
ActionResponse == {"total", "triggered", "skipped", "failed"}

\* the actions a run can be given: the three composed in the repository,
\* dispatchMondayWorkflow called with inputs of the caller's, and any other
\* function of type (issue: Issue) => Promise<ActionResponse>
ActionKinds ==
  {"syncEsriProductLabels", "syncAssignees", "dispatchFixed",
   "dispatchMondayWorkflow", "custom"}

\* ------------------------------------------------------------------ inputs
\* a label is a string or an object with optional name and colour
LabelInputs ==
  { [name |-> "maps", color |-> ProductColor],
    [name |-> "charts", color |-> ProductColor],
    [name |-> "", color |-> ProductColor],
    [color |-> ProductColor],
    [name |-> "bug", color |-> "006b75"],
    [str |-> "needs triage"] }

SeqsUpTo(S, n) == UNION { [1..k -> S] : k \in 0..n }

LabelLists == SeqsUpTo(LabelInputs, MaxLabels)

\* issue.assignees, when the property is present
AssigneeLists == { <<>>, <<"octocat">> }

\* the pull_request property of a record that is a pull request
PullRequestMarker == [url |-> "pulls"]

PageRecord(n, isPR) ==
  IF isPR THEN [number |-> n, pull_request |-> PullRequestMarker]
          ELSE [number |-> n]

\* the issues a record of a page can turn out to be for the action that reads
\* it: syncEsriProductLabels reads the labels, syncAssignees the assignees
\* (absent or present), the other actions neither
IssueInputs(r, a) ==
  CASE a = "syncEsriProductLabels" -> { r @@ [labels |-> l] : l \in LabelLists }
    [] a = "syncAssignees" -> { r } \cup { r @@ [assignees |-> x] : x \in AssigneeLists }
    [] OTHER -> { r }

NoIssue == [none |-> TRUE]
NoInputs == [x \in {} |-> ""]

\* types.ts:19-26: records of WorkflowInputs a caller passes to dispatchMondayWorkflow
CallerInputs ==
  { NoInputs,
    FixedInputs,
    [assignee_updated |-> "false"],
    [milestone_updated |-> "true", state_updated |-> "closed"],
    [label_name |-> "maps", label_color |-> ProductColor, label_action |-> "removed"] }

\* ------------------------------------------------------------------- state
VARIABLES
  action,          \* IterateParams.action of the run
  onlyFirstPage,   \* IterateParams.onlyFirstPage of the run
  pc,              \* where the run of iterateAllIssues is suspended
  counters,        \* ActionCounters of the run
  page,            \* page.data of the page being processed
  issues,          \* removePullRequests(page.data)
  idx,             \* position in issues of the issue whose turn it is
  issue,           \* the issue handed to the action in flight
  result,          \* what the action in flight resolves with, once decided
  inputs,          \* inputs given to dispatchMondayWorkflow by the action in flight
  payload,         \* inputs of the endpoint call of the action in flight
  inFlight,        \* actions invoked and not yet resolved
  seen,            \* records yielded by the source so far
  issuesSeen,      \* records yielded so far that are not pull requests
  listingFailed,   \* whether the request of a page has failed
  pagesFetched,    \* pages yielded by the source so far
  requests,        \* pages asked of the iterator so far
  delays,          \* inter-page sleeps awaited so far
  summaries,       \* final summaries emitted so far
  logged,          \* the counters each emitted summary carried
  invoked,         \* action invocations of the run
  tally,           \* issues handed to syncEsriProductLabels, by class
  returned,        \* values the action has resolved with in the run
  invokedOnPage,   \* action invocations for the page being processed
  totalAtPage,     \* counters.total when the page arrived
  dispatched,      \* calls of dispatchMondayWorkflow in the run
  endpointCalls,   \* calls of createWorkflowDispatch in the run
  endpointFails,   \* calls of createWorkflowDispatch that failed
  callsForIssue    \* calls of createWorkflowDispatch for the issue in flight

vars == << action, onlyFirstPage, pc, counters, page, issues, idx, issue, result,
           inputs, payload, inFlight, seen, issuesSeen, listingFailed, pagesFetched,
           requests, delays, summaries, logged, invoked, tally, returned, invokedOnPage,
           totalAtPage,           dispatched, endpointCalls, endpointFails, callsForIssue >>

runVars == << action, onlyFirstPage >>
pageVars == << page, issues, seen, issuesSeen, listingFailed, pagesFetched, totalAtPage >>
flightVars == << issue, result, inputs, payload, inFlight, callsForIssue >>
endpointVars == << dispatched, endpointCalls, endpointFails >>

\* ---------------------------------------------------------- pure functions
Has(r, f) == f \in DOMAIN r

\* the colour compared without regard to case
getProductLabelsAnyCase(i) ==
  LET isProduct(label) == ~Has(label, "str")
                          /\ Has(label, "color") /\ label.color \in {"006B75", "006b75"}
  IN  SelectSeq(i.labels, isProduct)

\* rest.ts:25-30
getProductLabels(i) ==
  LET isProduct(label) == ~Has(label, "str")
                          /\ Has(label, "color") /\ label.color = ProductColor
  IN  SelectSeq(i.labels, isProduct)

\* rest.ts:37-39
removePullRequests(list) ==
  LET isIssue(r) == ~Has(r, "pull_request")
  IN  SelectSeq(list, isIssue)

\* { ...defaults, ...in }, rest.ts:62
Spread(defaults, in) ==
  [k \in DOMAIN defaults \cup DOMAIN in |->
     IF k \in DOMAIN in THEN in[k] ELSE defaults[k]]

\* the defaults built from the position of the issue in the page
defaultInputsByPosition(i) ==
  [issue_number |-> ToString(idx), event_type |-> EventType]

\* rest.ts:51-54
defaultInputs(i) ==
  [issue_number |-> ToString(i.number), event_type |-> EventType]

\* What a call of an action does before its first suspension: it returns a
\* value, or it calls the endpoint with a payload and awaits it.
Return(v) == [kind |-> "return", value |-> v, given |-> NoInputs, inputs |-> NoInputs]
CallEndpoint(in, p) == [kind |-> "endpoint", value |-> "", given |-> in, inputs |-> p]
Throw == [kind |-> "throw", value |-> "", given |-> NoInputs, inputs |-> NoInputs]

\* rest.ts:47-63, up to the await of createWorkflowDispatch
dispatchMondayWorkflow(i, in) ==
  CallEndpoint(in, Spread(defaultInputs(i), in))

\* !firstLabel?.name, rest.ts:85
Falsy(label, f) == ~Has(label, f) \/ label[f] = ""

\* the product-label sync without the check of the label's name
syncEsriProductLabelsUnchecked(i) ==
  LET productLabels == getProductLabels(i)
      firstLabel == productLabels[1]
  IN  IF Len(productLabels) = 0 THEN Return("skipped")
      ELSE dispatchMondayWorkflow(i,
             [label_name |-> IF Has(firstLabel, "name") THEN firstLabel.name ELSE "",
              label_color |-> firstLabel.color,
              label_action |-> "added"])

\* the product-label sync that skips a product label without a name
syncEsriProductLabelsSkipsNameless(i) ==
  LET productLabels == getProductLabels(i)
      firstLabel == productLabels[1]
  IN  IF Len(productLabels) = 0 \/ Falsy(firstLabel, "name") THEN Return("skipped")
      ELSE dispatchMondayWorkflow(i,
             [label_name |-> firstLabel.name,
              label_color |-> firstLabel.color,
              label_action |-> "added"])

\* rest.ts:80-97
syncEsriProductLabels(i) ==
  LET productLabels == getProductLabels(i)
      firstLabel == productLabels[1]
  IN  IF Len(productLabels) = 0 THEN Return("skipped")
      ELSE IF Falsy(firstLabel, "name") THEN Return("failed")
      ELSE dispatchMondayWorkflow(i,
             [label_name |-> firstLabel.name,
              label_color |-> firstLabel.color,
              label_action |-> "added"])

\* rest.ts:171-175; issue?.assignees?.length is undefined when assignees is absent
syncAssignees(i) ==
  IF Has(i, "assignees") /\ Len(i.assignees) = 0 THEN Return("skipped")
  ELSE dispatchMondayWorkflow(i, [assignee_updated |-> "true"])

\* index.ts:15
dispatchFixed(i) == dispatchMondayWorkflow(i, FixedInputs)

\* any other action: it resolves with a value of its return type, or it throws
customOutcomes == { Return(v) : v \in ActionResponse } \cup { Throw }

Outcomes(a, i) ==
  CASE a = "syncEsriProductLabels" -> { syncEsriProductLabels(i) }
    [] a = "syncAssignees" -> { syncAssignees(i) }
    [] a = "dispatchFixed" -> { dispatchFixed(i) }
    [] a = "dispatchMondayWorkflow" ->
         { dispatchMondayWorkflow(i, in) : in \in CallerInputs }
    [] OTHER -> customOutcomes

\* ------------------------------------------------- classes of an issue
\* positions of the labels of colour 006B75 among the labels of an issue
Qualifying(i) ==
  { k \in DOMAIN i.labels :
      Has(i.labels[k], "color") /\ i.labels[k].color = "006B75" }

Least(S) == CHOOSE k \in S : \A m \in S : k <= m

\* the first label of colour 006B75 of an issue that has one
FirstQualifying(i) == i.labels[Least(Qualifying(i))]

Nameless(label) == ~Has(label, "name") \/ label.name = ""

NoTally == [noProduct |-> 0, nameless |-> 0, named |-> 0]

\* the tally of issues by their first label of colour 006B75, one issue more
Tallied(t, i) ==
  LET q == Qualifying(i)
  IN  IF q = {} THEN [t EXCEPT !.noProduct = @ + 1]
      ELSE IF Nameless(FirstQualifying(i)) THEN [t EXCEPT !.nameless = @ + 1]
      ELSE [t EXCEPT !.named = @ + 1]

\* ----------------------------------------------------------------- actions
Init ==
  /\ action \in ActionKinds
  /\ onlyFirstPage \in BOOLEAN
  /\ pc = "start"
  /\ counters = [total |-> 0, triggered |-> 0, skipped |-> 0, failed |-> 0]
  /\ page = <<>>
  /\ issues = <<>>
  /\ idx = 1
  /\ issue = NoIssue
  /\ result = "none"
  /\ inputs = NoInputs
  /\ payload = NoInputs
  /\ inFlight = 0
  /\ seen = 0
  /\ issuesSeen = 0
  /\ listingFailed = FALSE
  /\ pagesFetched = 0
  /\ requests = 0
  /\ delays = 0
  /\ summaries = 0
  /\ logged = <<>>
  /\ invoked = 0
  /\ tally = NoTally
  /\ returned = {}
  /\ invokedOnPage = 0
  /\ totalAtPage = 0
  /\ dispatched = 0
  /\ endpointCalls = 0
  /\ endpointFails = 0
  /\ callsForIssue = 0

\* rest.ts:122-143: the counters are constructed, the iterator options built
\* and the first page asked of the iterator
iterateAllIssues ==
  /\ pc = "start"
  /\ pc' = "fetch"
  /\ counters' = [total |-> 0, triggered |-> 0, skipped |-> 0, failed |-> 0]
  /\ requests' = requests + 1
  /\ UNCHANGED << runVars, pageVars, idx, flightVars, delays, summaries, logged,
                  invoked, tally, returned, invokedOnPage, endpointVars >>

\* rest.ts:140-146: a page arrives; pull requests are removed and the rest counted
PageArrives ==
  /\ pc = "fetch"
  /\ pagesFetched < MaxPages
  /\ \E flags \in SeqsUpTo(BOOLEAN, MaxPageLen) :
       LET data == [k \in 1..Len(flags) |-> PageRecord(seen + k, flags[k])]
           kept == removePullRequests(data)
       IN  /\ page' = data
           /\ issues' = kept
           /\ seen' = seen + Len(data)
           /\ issuesSeen' = issuesSeen + Cardinality({ k \in DOMAIN flags : ~flags[k] })
           /\ totalAtPage' = counters.total
           /\ counters' = [counters EXCEPT !.total = @ + Len(kept)]
  /\ pagesFetched' = pagesFetched + 1
  /\ UNCHANGED listingFailed
  /\ idx' = 1
  /\ invokedOnPage' = 0
  /\ pc' = "loop"
  /\ UNCHANGED << runVars, flightVars, requests, delays, summaries, logged, invoked, tally, returned,
                  endpointVars >>

\* rest.ts:157-163, the summary
Summary ==
  /\ summaries' = summaries + 1
  /\ logged' = Append(logged, counters)
  /\ pc' = "done"

\* the iterator is exhausted and the run returns without its summary
SourceExhaustedSilently ==
  /\ pc = "fetch"
  /\ pc' = "done"
  /\ UNCHANGED << runVars, counters, pageVars, idx, flightVars, requests, delays,
                  summaries, logged, invoked, tally, returned, invokedOnPage, endpointVars >>

\* rest.ts:140, 157-163: the iterator is exhausted; the summary is logged
SourceExhausted ==
  /\ pc = "fetch"
  /\ Summary
  /\ UNCHANGED << runVars, counters, pageVars, idx, flightVars, requests, delays,
                  invoked, tally, returned, invokedOnPage, endpointVars >>

\* a listing failure caught inside the loop: the run goes on to its summary
ListingFailsSwallowed ==
  /\ pc = "fetch"
  /\ listingFailed' = TRUE
  /\ Summary
  /\ UNCHANGED << runVars, counters, page, issues, seen, issuesSeen, pagesFetched,
                  totalAtPage, idx, flightVars, requests, delays, invoked, tally, returned,
                  invokedOnPage, endpointVars >>

\* rest.ts:140: the request of a page fails; nothing in iterateAllIssues catches it
ListingFails ==
  /\ pc = "fetch"
  /\ pc' = "aborted"
  /\ listingFailed' = TRUE
  /\ UNCHANGED << runVars, counters, page, issues, seen, issuesSeen, pagesFetched,
                  totalAtPage, idx, flightVars, requests, delays,
                  summaries, logged, invoked, tally, returned, invokedOnPage, endpointVars >>

\* rest.ts:147-148: action(issue) is called and runs to its first suspension;
\* awaited, the loop is suspended until the action resolves
InvokeAction(awaited) ==
  /\ pc = "loop"
  /\ idx <= Len(issues)
  /\ \E given \in IssueInputs(issues[idx], action) :
           /\ issue' = given
           /\ \E o \in Outcomes(action, given) :
                /\ result' = IF o.kind = "return" THEN o.value
                             ELSE IF o.kind = "throw" THEN "throw" ELSE "none"
                /\ inputs' = o.given
                /\ payload' = o.inputs
                /\ pc' = IF ~awaited THEN "loop"
                         ELSE IF o.kind = "endpoint" THEN "dispatch" ELSE "resolved"
                /\ dispatched' = dispatched + (IF o.kind = "endpoint" THEN 1 ELSE 0)
                /\ endpointCalls' = endpointCalls + (IF o.kind = "endpoint" THEN 1 ELSE 0)
                /\ callsForIssue' = IF o.kind = "endpoint" THEN 1 ELSE 0
  /\ inFlight' = inFlight + 1
  /\ invoked' = invoked + 1
  /\ tally' = IF action = "syncEsriProductLabels" THEN Tallied(tally, issue') ELSE tally
  /\ UNCHANGED returned
  /\ invokedOnPage' = invokedOnPage + 1
  /\ idx' = IF awaited THEN idx ELSE idx + 1
  /\ UNCHANGED << runVars, counters, pageVars, requests, delays, summaries, logged,
                  endpointFails >>

\* the action called without await: the loop goes on to the next issue
StartActionNotAwaited == InvokeAction(FALSE)

\* rest.ts:148: const result = await action(issue)
StartAction == InvokeAction(TRUE)

\* rest.ts:57-65: createWorkflowDispatch resolves; dispatchMondayWorkflow returns
DispatchSucceeds ==
  /\ pc = "dispatch"
  /\ result' = "triggered"
  /\ pc' = "resolved"
  /\ UNCHANGED << runVars, counters, pageVars, idx, issue, inputs, payload, inFlight,
                  callsForIssue, requests, delays, summaries, logged, invoked, tally, returned,
                  invokedOnPage, endpointVars >>

\* a dispatch failure that is not caught: dispatchMondayWorkflow rejects
DispatchFailsRaises ==
  /\ pc = "dispatch"
  /\ result' = "throw"
  /\ pc' = "resolved"
  /\ endpointFails' = endpointFails + 1
  /\ UNCHANGED << runVars, counters, pageVars, idx, issue, inputs, payload, inFlight,
                  callsForIssue, requests, delays, summaries, logged, invoked, tally, returned,
                  invokedOnPage, dispatched, endpointCalls >>

\* a failed dispatch that is tried again
DispatchFailsRetried ==
  /\ pc = "dispatch"
  /\ callsForIssue < 2
  /\ endpointFails' = endpointFails + 1
  /\ endpointCalls' = endpointCalls + 1
  /\ callsForIssue' = callsForIssue + 1
  /\ UNCHANGED << runVars, counters, pageVars, idx, issue, result, inputs, payload,
                  inFlight, pc, requests, delays, summaries, logged, invoked, tally, returned,
                  invokedOnPage, dispatched >>

\* rest.ts:66-72: createWorkflowDispatch fails; the error is caught and logged
DispatchFails ==
  /\ pc = "dispatch"
  /\ result' = "failed"
  /\ pc' = "resolved"
  /\ endpointFails' = endpointFails + 1
  /\ UNCHANGED << runVars, counters, pageVars, idx, issue, inputs, payload, inFlight,
                  callsForIssue, requests, delays, summaries, logged, invoked, tally, returned,
                  invokedOnPage, dispatched, endpointCalls >>

\* the counter of the outcome incremented twice for one issue
ActionResolvesCountsTwice ==
  /\ pc = "resolved"
  /\ result \in ActionResponse
  /\ counters' = [counters EXCEPT ![result] = @ + 2]
  /\ idx' = idx + 1
  /\ issue' = NoIssue
  /\ result' = "none"
  /\ inputs' = NoInputs
  /\ payload' = NoInputs
  /\ inFlight' = inFlight - 1
  /\ callsForIssue' = 0
  /\ returned' = returned \cup {result}
  /\ pc' = "loop"
  /\ UNCHANGED << runVars, pageVars, requests, delays, summaries, logged, invoked, tally,
                  invokedOnPage, endpointVars >>

\* rest.ts:148-149: the awaited action resolves and its counter is incremented
ActionResolves ==
  /\ pc = "resolved"
  /\ result \in ActionResponse
  /\ counters' = [counters EXCEPT ![result] = @ + 1]
  /\ idx' = idx + 1
  /\ issue' = NoIssue
  /\ result' = "none"
  /\ inputs' = NoInputs
  /\ payload' = NoInputs
  /\ inFlight' = inFlight - 1
  /\ callsForIssue' = 0
  /\ returned' = returned \cup {result}
  /\ pc' = "loop"
  /\ UNCHANGED << runVars, pageVars, requests, delays, summaries, logged, invoked, tally,
                  invokedOnPage, endpointVars >>

\* rest.ts:148: the awaited action rejects; nothing in iterateAllIssues catches it
ActionThrows ==
  /\ pc = "resolved"
  /\ result = "throw"
  /\ pc' = "aborted"
  /\ inFlight' = inFlight - 1
  /\ UNCHANGED << runVars, counters, pageVars, idx, issue, result, inputs, payload,
                  callsForIssue, requests, delays, summaries, logged, invoked, tally, returned,
                  invokedOnPage, endpointVars >>

\* the end of a page without the break of onlyFirstPage
EndOfPageNoBreak ==
  /\ pc = "loop"
  /\ idx > Len(issues)
  /\ pc' = "sleep"
  /\ delays' = delays + 1
  /\ UNCHANGED << runVars, counters, pageVars, idx, flightVars, requests,
                  summaries, logged, invoked, tally, returned, invokedOnPage, endpointVars >>

\* the end of a page with the sleep left out after a page without issues
EndOfPageSleepsAfterIssues ==
  /\ pc = "loop"
  /\ idx > Len(issues)
  /\ IF onlyFirstPage
     THEN Summary /\ UNCHANGED << delays, requests >>
     ELSE IF Len(issues) = 0
          THEN pc' = "fetch" /\ requests' = requests + 1
               /\ UNCHANGED << delays, summaries, logged >>
          ELSE pc' = "sleep" /\ delays' = delays + 1
               /\ UNCHANGED << requests, summaries, logged >>
  /\ UNCHANGED << runVars, counters, pageVars, idx, flightVars,
                  invoked, tally, returned, invokedOnPage, endpointVars >>

\* rest.ts:152-155: the page is done; break, or log and sleep
EndOfPage ==
  /\ pc = "loop"
  /\ idx > Len(issues)
  /\ IF onlyFirstPage
     THEN Summary /\ UNCHANGED delays
     ELSE pc' = "sleep" /\ delays' = delays + 1 /\ UNCHANGED << summaries, logged >>
  /\ UNCHANGED << runVars, counters, pageVars, idx, flightVars, requests,
                  invoked, tally, returned, invokedOnPage, endpointVars >>

\* rest.ts:155, 140: the sleep is over; the next page is asked of the iterator
SleepDone ==
  /\ pc = "sleep"
  /\ pc' = "fetch"
  /\ requests' = requests + 1
  /\ UNCHANGED << runVars, counters, pageVars, idx, flightVars, delays, summaries, logged,
                  invoked, tally, returned, invokedOnPage, endpointVars >>

Next ==
  \/ iterateAllIssues
  \/ PageArrives
  \/ SourceExhausted
  \/ ListingFails
  \/ StartAction
  \/ DispatchSucceeds
  \/ DispatchFails
  \/ ActionResolves
  \/ ActionThrows
  \/ EndOfPage
  \/ SleepDone

Spec == Init /\ [][Next]_vars

\* the source answers every request, the endpoint answers every call, every
\* sleep ends and the loop runs on: no step of the run is put off for ever
FairSpec == Spec /\ WF_vars(Next)

\* ------------------------------------------------------------ observations
Outcome(c) == c.triggered + c.skipped + c.failed

\* the action of the run is one of those that end in dispatchMondayWorkflow
Dispatching ==
  action \in {"syncEsriProductLabels", "syncAssignees", "dispatchFixed",
              "dispatchMondayWorkflow"}

\* an action is in flight: invoked and its result not yet counted
Flying == pc \in {"dispatch", "resolved"}

\* the page being processed has been fully processed
PageProcessed == pc = "sleep" \/ (pc = "loop" /\ idx > Len(issues))

\* no page is being processed: before the first page or between two pages
BetweenPages == pc \in {"start", "fetch", "sleep", "done"} \/ PageProcessed

\* records of the page being processed that are not pull requests
IssuesOfPage == Cardinality({ k \in DOMAIN page : ~Has(page[k], "pull_request") })

\* ------------------------------------------------------------------ claims

\* C1: for any sequence of pages and any per-issue action,
\* total == triggered + skipped + failed before the first page is processed
\* and each time a page has been fully processed.
C1_TotalIsSumAfterEveryPage ==
  BetweenPages => counters.total = Outcome(counters)

\* C2: for every page with N records that are not pull requests and M that
\* are, the action is invoked exactly N times for the page, never with a
\* pull request, and total grows by exactly N for the page.
C2_ActionOncePerIssueOfPage ==
  /\ Flying => ~Has(issue, "pull_request")
  /\ PageProcessed =>
       /\ invokedOnPage = IssuesOfPage
       /\ counters.total - totalAtPage = IssuesOfPage

\* a failed dispatch whose 'failed' is not yet counted
PendingFailure ==
  IF pc = "resolved" /\ callsForIssue > 0 /\ result = "failed" THEN 1 ELSE 0

\* C3: a failure of the workflow-dispatch endpoint makes dispatchMondayWorkflow
\* return 'failed' and raise nothing, and the run goes on: every failure is
\* counted in failed, the run is aborted by nothing but a listing failure,
\* and a run that ends has invoked the action for every issue of every page
\* and emitted the summary, also when the endpoint fails for every issue.
C3_DispatchFailureDoesNotAbort ==
  Dispatching =>
    /\ result # "throw"
    /\ (pc = "resolved" /\ callsForIssue > 0) => result \in {"triggered", "failed"}
    /\ counters.failed + PendingFailure >= endpointFails
    /\ action # "syncEsriProductLabels" =>
         counters.failed + PendingFailure = endpointFails
    /\ pc = "aborted" => listingFailed /\ inFlight = 0 /\ issue = NoIssue
    /\ BetweenPages => invoked = issuesSeen
    /\ pc = "done" => summaries = 1 /\ counters.failed >= endpointFails

\* the endpoint failed for every issue of a run of two pages, and the run ended
C3_Witness ==
  /\ Dispatching
  /\ pc = "done"
  /\ pagesFetched = 2
  /\ invoked >= 3
  /\ endpointFails = invoked
  /\ counters.failed = invoked
  /\ summaries = 1

\* C4: a failure to fetch a page is not recovered: it ends the run, and after
\* it no page is requested, no action invoked, no dispatch made and no
\* summary emitted.
C4_ListingFailureIsFatal ==
  listingFailed =>
    /\ pc = "aborted"
    /\ summaries = 0
    /\ inFlight = 0
    /\ ~ENABLED Next

\* the second page failed to arrive after the first was processed
C4_Witness ==
  /\ listingFailed
  /\ pagesFetched = 1
  /\ invoked >= 1
  /\ requests = 2

\* position in the page of its k-th record that is not a pull request
IssueOfPage(k) ==
  CHOOSE n \in DOMAIN page :
    /\ ~Has(page[n], "pull_request")
    /\ Cardinality({ m \in 1..n : ~Has(page[m], "pull_request") }) = k

\* C5: at most one action is in flight at any time; the actions are invoked
\* in the order of the issues of the page and the pages in the order
\* fetched, each after the one before it has resolved; the next page is
\* requested only after every action of the page has resolved.
C5_OneActionAtATime ==
  /\ inFlight \in {0, 1}
  /\ inFlight = 1 <=> Flying
  /\ Flying =>
       /\ idx \in 1..IssuesOfPage
       /\ issue.number = page[IssueOfPage(idx)].number
       /\ invokedOnPage = idx
       /\ invoked = issuesSeen - IssuesOfPage + idx
  /\ pc = "loop" => invokedOnPage = idx - 1
  /\ pc \in {"fetch", "sleep", "done"} =>
       /\ invokedOnPage = IssuesOfPage
       /\ invoked = issuesSeen
       /\ requests \in {pagesFetched, pagesFetched + 1}

\* the second issue of the second page is in flight, the fourth of the run
C5_Witness ==
  /\ Flying
  /\ pagesFetched = 2
  /\ invoked = 4
  /\ idx = 2
  /\ issue.number = 4

\* C6: with onlyFirstPage set only the issues of the first page are
\* processed, no inter-page delay is awaited and no second page requested.
C6_OnlyFirstPage ==
  onlyFirstPage =>
    /\ pagesFetched <= 1
    /\ requests <= 1
    /\ delays = 0
    /\ pc # "sleep"
    /\ issuesSeen = IssuesOfPage
    /\ invoked <= IssuesOfPage
    /\ (pc = "done" /\ ~listingFailed) => invoked = IssuesOfPage

\* a run with onlyFirstPage has ended after a first page of two issues,
\* and the source was not exhausted
C6_Witness ==
  /\ onlyFirstPage
  /\ pc = "done"
  /\ pagesFetched = 1
  /\ pagesFetched < MaxPages
  /\ invoked = 2
  /\ summaries = 1

\* C7: syncEsriProductLabels makes no call of the endpoint when the issue
\* has no label of colour 006B75 (it returns 'skipped') or when the first
\* such label has an empty or missing name (it returns 'failed'); it raises
\* in neither case.
C7_NoDispatchWithoutNamedProductLabel ==
  (action = "syncEsriProductLabels" /\ Flying) =>
    LET q == Qualifying(issue)
    IN  /\ q = {} =>
             /\ pc = "resolved" /\ result = "skipped"
             /\ callsForIssue = 0 /\ payload = NoInputs
        /\ (q # {} /\ Nameless(issue.labels[Least(q)])) =>
             /\ pc = "resolved" /\ result = "failed"
             /\ callsForIssue = 0 /\ payload = NoInputs

\* after an issue without product label was skipped, an issue whose first
\* product label has no name has failed, and no call was made in the run
C7_Witness ==
  /\ action = "syncEsriProductLabels"
  /\ pc = "resolved"
  /\ result = "failed"
  /\ Len(issue.labels) = 2
  /\ Qualifying(issue) = {2}
  /\ ~Has(issue.labels[2], "name")
  /\ counters.skipped >= 1
  /\ endpointCalls = 0

\* C8: the label chosen by syncEsriProductLabels is the first label of
\* colour 006B75 in the issue's own label order: getProductLabels keeps
\* exactly the labels of that colour, in their order, and when the first
\* has a name the payload carries its name and colour and label_action
\* 'added', whatever follows it.
C8_FirstProductLabelIsDispatched ==
  (action = "syncEsriProductLabels" /\ Flying) =>
    LET kept == getProductLabels(issue)
        q == Qualifying(issue)
        nth(j) == CHOOSE k \in q : Cardinality({ m \in q : m < k }) = j - 1
    IN  /\ Len(kept) = Cardinality(q)
        /\ \A j \in 1..Len(kept) : kept[j] = issue.labels[nth(j)]
        /\ (q # {} /\ ~Nameless(issue.labels[Least(q)])) =>
             /\ callsForIssue = 1
             /\ payload.label_name = issue.labels[Least(q)].name
             /\ payload.label_color = issue.labels[Least(q)].color
             /\ payload.label_color = "006B75"
             /\ payload.label_action = "added"

\* two product labels with names: the first is the one dispatched
C8_Witness ==
  /\ action = "syncEsriProductLabels"
  /\ pc = "dispatch"
  /\ Qualifying(issue) = {1, 2}
  /\ ~Nameless(issue.labels[1]) /\ issue.labels[1].name = "charts"
  /\ ~Nameless(issue.labels[2]) /\ issue.labels[2].name = "maps"
  /\ payload.label_name = "charts"

\* an issue has no assignees: the collection is absent or empty
NoAssignees(i) == ~Has(i, "assignees") \/ Len(i.assignees) = 0

\* C9: syncAssignees returns 'skipped' without a dispatch for an issue with no
\* assignees, an absent collection counting as none; for an issue with
\* assignees it dispatches once with assignee_updated 'true' and returns
\* 'triggered' if the endpoint succeeds and 'failed' otherwise.
C9_AssigneeSync ==
  (action = "syncAssignees" /\ Flying) =>
    IF NoAssignees(issue)
    THEN pc = "resolved" /\ result = "skipped" /\ callsForIssue = 0
    ELSE /\ callsForIssue = 1
         /\ payload.assignee_updated = "true"
         /\ pc = "resolved" => result \in {"triggered", "failed"}

\* a call of the endpoint of the issue in flight awaits its outcome, or has
\* succeeded and is not yet counted
PendingCall ==
  IF pc = "dispatch" \/ (pc = "resolved" /\ callsForIssue > 0 /\ result = "triggered")
  THEN 1 ELSE 0

\* C10: a call of dispatchMondayWorkflow invokes the endpoint exactly once,
\* whether it succeeds or fails, and never again after a failure: in a
\* run the endpoint is invoked at most once per processed issue, as often
\* as an action reached the dispatch step.
C10_OneEndpointCallPerDispatch ==
  /\ callsForIssue \in {0, 1}
  /\ endpointCalls = dispatched
  /\ endpointCalls <= invoked
  /\ pc = "dispatch" => callsForIssue = 1
  /\ (Flying /\ payload # NoInputs) <=> callsForIssue = 1
  /\ action \in {"dispatchFixed", "dispatchMondayWorkflow"} => endpointCalls = invoked
  /\ Dispatching =>
       endpointCalls = counters.triggered + endpointFails + PendingCall

\* a run in which a dispatch failed and a later one succeeded has ended
C10_Witness ==
  /\ Dispatching
  /\ pc = "done"
  /\ endpointFails >= 1
  /\ counters.triggered >= 1
  /\ counters.skipped >= 1
  /\ endpointCalls = counters.triggered + counters.failed

\* the decimal numeral of a natural number
DigitOf(d) == <<"0", "1", "2", "3", "4", "5", "6", "7", "8", "9">>[d + 1]

RECURSIVE Decimal(_)
Decimal(n) == IF n < 10 THEN DigitOf(n) ELSE Decimal(n \div 10) \o DigitOf(n % 10)

\* the keys of WorkflowInputs, types.ts:19-26
WorkflowInputKeys ==
  {"milestone_updated", "assignee_updated", "state_updated",
   "label_name", "label_color", "label_action"}

C12_OneDelayPerPage ==
  ~onlyFirstPage =>
    /\ pc \in {"loop", "dispatch", "resolved"} => delays = pagesFetched - 1
    /\ pc \in {"start", "sleep", "fetch", "done"} => delays = pagesFetched
    /\ pc = "aborted" =>
         delays = IF listingFailed THEN pagesFetched ELSE pagesFetched - 1
    /\ pc \in {"fetch", "done"} \/ listingFailed => requests = delays + 1
    /\ pc = "sleep" => requests = delays

\* a run of two pages, one of pull requests only and one without records,
\* has ended after two delays
C12_Witness ==
  /\ ~onlyFirstPage
  /\ pc = "done"
  /\ pagesFetched = 2
  /\ seen = 1
  /\ issuesSeen = 0
  /\ delays = 2

ZeroCounters == [total |-> 0, triggered |-> 0, skipped |-> 0, failed |-> 0]

\* C13: when no request of a page fails and no action raises, the run
\* eventually terminates; the summary is emitted exactly once, at the end,
\* after the last action has resolved and been counted, and carries the four
\* counters; when the source held no issue it carries four zeros.
C13_TerminatesWithOneSummary ==
  /\ <>(pc = "done" \/ listingFailed \/ result = "throw")
  /\ [](summaries = (IF pc = "done" THEN 1 ELSE 0))
  /\ [](Len(logged) = summaries)
  /\ [](pc = "done" =>
          /\ logged = << counters >>
          /\ inFlight = 0
          /\ invoked = issuesSeen
          /\ idx > Len(issues)
          /\ issuesSeen = 0 => logged = << ZeroCounters >>)
  /\ [][pc # "done"]_vars

\* a run over two pages, the first of a pull request only and the second of
\* two issues, has ended with its summary after both actions
C13_Witness ==
  /\ pc = "done"
  /\ ~onlyFirstPage
  /\ pagesFetched = 2
  /\ seen = 3
  /\ invoked = 2
  /\ summaries = 1
  /\ logged[1].total = 2

\* C14: at the end of a run with syncEsriProductLabels as action, total is
\* the number of records that are not pull requests, skipped the number of
\* those without a label of colour 006B75, triggered the number of those
\* whose first such label has a name and whose dispatch succeeded, failed
\* the number of those whose first such label has no name or whose dispatch
\* failed; the summary carries these numbers.
C14_SummaryOfProductLabelSync ==
  (action = "syncEsriProductLabels" /\ pc = "done") =>
    /\ counters.total = issuesSeen
    /\ counters.skipped = tally.noProduct
    /\ counters.triggered = tally.named - endpointFails
    /\ counters.failed = tally.nameless + endpointFails
    /\ logged = << counters >>

\* pages [#1 product label, #2 pull request] and [#3 no product label] with
\* a succeeding endpoint: total 2, triggered 1, skipped 1, failed 0
C14_Witness ==
  /\ action = "syncEsriProductLabels"
  /\ pc = "done"
  /\ pagesFetched = 2
  /\ seen = 3
  /\ Len(page) = 1
  /\ endpointFails = 0
  /\ tally = [noProduct |-> 1, nameless |-> 0, named |-> 1]
  /\ logged = << [total |-> 2, triggered |-> 1, skipped |-> 1, failed |-> 0] >>

\* C15: an error that arises while one issue is processed, an action that
\* raises included, is terminal for that issue only: nothing but a listing
\* failure ends a run before its summary, and a run that has ended has left
\* no issue of its last page without its action.
C15_IssueErrorIsTerminalForTheIssueOnly ==
  pc \in {"done", "aborted"} =>
    /\ pc = "aborted" => listingFailed
    /\ idx > Len(issues)
    /\ invoked = issuesSeen

\* C16: total == triggered + skipped + failed in every state of a run from
\* the construction of the counters on, between two actions inside a page
\* and while an action is awaited included.
C16_TotalIsSumInEveryState ==
  counters.total = Outcome(counters)

\* C17: for every value the action may return, processing one issue
\* increments exactly one of triggered, skipped and failed by one and leaves
\* total unchanged; total changes only when a page arrives, by the number of
\* its records that are not pull requests.
C17_OneOutcomePerIssue ==
  [][/\ (pc = "resolved" /\ pc' = "loop") =>
          /\ Outcome(counters') = Outcome(counters) + 1
          /\ counters'.total = counters.total
     /\ counters'.total # counters.total =>
          /\ pc = "fetch"
          /\ counters'.total = counters.total + Len(issues')]_vars

\* --------------------------------- the variant of src/unnamed/part_001
LegacyActionKinds == {"syncEsriProductLabels", "custom"}

\* an action that returns a promise still pending
Pending == [kind |-> "pending", value |-> "", given |-> NoInputs, inputs |-> NoInputs]

\* part_001:30-56, up to the await of createWorkflowDispatch
syncEsriProductLabelsLegacy(i) ==
  LET productLabels == getProductLabels(i)
      firstLabel == productLabels[1]
  IN  IF Len(productLabels) <= 0 THEN Return("void")
      ELSE IF Falsy(firstLabel, "name") THEN Return("void")
      ELSE CallEndpoint(NoInputs,
             [issue_number |-> ToString(i.number),
              event_type |-> EventType,
              label_name |-> firstLabel.name,
              label_color |-> firstLabel.color,
              label_action |-> "added"])

LegacyOutcomes(a, i) ==
  IF a = "syncEsriProductLabels" THEN { syncEsriProductLabelsLegacy(i) }
  ELSE { Return("void"), Pending }

\* what the variant has not: counters, sleep, summary, inputs of a caller
notInLegacy == << counters, result, inputs, delays, summaries, logged, tally, returned,
                 totalAtPage, dispatched, callsForIssue >>

LegacyInit == Init /\ action \in LegacyActionKinds

\* part_001:67-80: the first page is asked of the iterator
iterateAllIssuesLegacy ==
  /\ pc = "start"
  /\ pc' = "fetch"
  /\ requests' = requests + 1
  /\ UNCHANGED << runVars, pageVars, idx, issue, payload, inFlight, invoked,
                  invokedOnPage, endpointCalls, endpointFails, notInLegacy >>

\* part_001:73-81: a page arrives and its pull requests are removed
LegacyPageArrives ==
  /\ pc = "fetch"
  /\ pagesFetched < MaxPages
  /\ \E flags \in SeqsUpTo(BOOLEAN, MaxPageLen) :
       LET data == [k \in 1..Len(flags) |-> PageRecord(seen + k, flags[k])]
       IN  /\ page' = data
           /\ issues' = removePullRequests(data)
           /\ seen' = seen + Len(data)
           /\ issuesSeen' = issuesSeen + Cardinality({ k \in DOMAIN flags : ~flags[k] })
  /\ pagesFetched' = pagesFetched + 1
  /\ idx' = 1
  /\ invokedOnPage' = 0
  /\ pc' = "loop"
  /\ UNCHANGED << runVars, listingFailed, issue, payload, inFlight, requests, invoked,
                  endpointCalls, endpointFails, notInLegacy >>

\* part_001:82: the callback of forEach calls action(issue), which runs to its
\* first suspension; forEach drops the promise and goes on to the next issue
LegacyStartAction ==
  /\ pc = "loop"
  /\ idx <= Len(issues)
  /\ \E given \in IssueInputs(issues[idx], action) :
       \E o \in LegacyOutcomes(action, given) :
         /\ issue' = given
         /\ payload' = o.inputs
         /\ inFlight' = inFlight + (IF o.kind = "return" THEN 0 ELSE 1)
         /\ endpointCalls' = endpointCalls + (IF o.kind = "endpoint" THEN 1 ELSE 0)
  /\ invoked' = invoked + 1
  /\ invokedOnPage' = invokedOnPage + 1
  /\ idx' = idx + 1
  /\ UNCHANGED << runVars, pageVars, pc, requests, endpointFails, notInLegacy >>

\* part_001:84-87: forEach has returned; break, or ask for the next page
LegacyEndOfPage ==
  /\ pc = "loop"
  /\ idx > Len(issues)
  /\ IF onlyFirstPage
     THEN pc' = "done" /\ UNCHANGED requests
     ELSE pc' = "fetch" /\ requests' = requests + 1
  /\ UNCHANGED << runVars, pageVars, idx, issue, payload, inFlight, invoked,
                  invokedOnPage, endpointCalls, endpointFails, notInLegacy >>

\* part_001:73, 92: the iterator is exhausted and iterateAllIssues returns
LegacySourceExhausted ==
  /\ pc = "fetch"
  /\ pc' = "done"
  /\ UNCHANGED << runVars, pageVars, idx, issue, payload, inFlight, requests, invoked,
                  invokedOnPage, endpointCalls, endpointFails, notInLegacy >>

\* part_001:88-91: the request of a page fails; the error is logged and rethrown
LegacyListingFails ==
  /\ pc = "fetch"
  /\ pc' = "aborted"
  /\ listingFailed' = TRUE
  /\ UNCHANGED << runVars, page, issues, seen, issuesSeen, pagesFetched, totalAtPage,
                  idx, issue, payload, inFlight, requests, invoked, invokedOnPage,
                  endpointCalls, endpointFails, counters, result, inputs, delays,
                  summaries, logged, tally, returned, dispatched, callsForIssue >>

\* the loop is suspended or over, so the callbacks of pending promises can run
LegacyIdle == pc \in {"fetch", "done", "aborted"}

\* part_001:44-59, 82: a pending action resolves
LegacyActionSettles ==
  /\ LegacyIdle
  /\ inFlight > 0
  /\ inFlight' = inFlight - 1
  /\ UNCHANGED << runVars, pageVars, pc, idx, issue, payload, requests, invoked,
                  invokedOnPage, endpointCalls, endpointFails, notInLegacy >>

\* part_001:44, 82: a pending action rejects; its promise was dropped by
\* forEach, so the try of iterateAllIssues does not see the rejection
LegacyActionRejects ==
  /\ LegacyIdle
  /\ inFlight > 0
  /\ inFlight' = inFlight - 1
  /\ endpointFails' = endpointFails + (IF action = "syncEsriProductLabels" THEN 1 ELSE 0)
  /\ UNCHANGED << runVars, pageVars, pc, idx, issue, payload, requests, invoked,
                  invokedOnPage, endpointCalls, notInLegacy >>

LegacyNext ==
  \/ iterateAllIssuesLegacy
  \/ LegacyPageArrives
  \/ LegacyStartAction
  \/ LegacyEndOfPage
  \/ LegacySourceExhausted
  \/ LegacyListingFails
  \/ LegacyActionSettles
  \/ LegacyActionRejects

SpecLegacy == LegacyInit /\ [][LegacyNext]_vars

\* C18: in the variant of part_001 the action for an issue has fully resolved
\* before the action for the next issue starts, before the next page is
\* requested and before iterateAllIssues returns.
C18_LegacyActionsInSequence ==
  /\ [][invoked' # invoked => inFlight = 0]_vars
  /\ [][requests' # requests => inFlight = 0]_vars
  /\ [](pc = "done" => inFlight = 0)

\* the action has resolved with nothing but triggered, skipped or failed
OnlyOutcomesReturned ==
  returned \cup ({result} \cap ActionResponse) \subseteq {"triggered", "skipped", "failed"}

\* issues of the current page whose action has not resolved into the loop
Unresolved == IssuesOfPage - (idx - 1)

\* C19: in a run whose action returns only triggered, skipped or failed,
\* triggered + skipped + failed <= total and total minus that sum is the
\* number of issues of the current page whose action has not yet resolved;
\* none of the four counters ever decreases.
C19_OutcomesLagTotalByThePage ==
  /\ [](OnlyOutcomesReturned =>
          /\ Outcome(counters) <= counters.total
          /\ counters.total - Outcome(counters) = Unresolved)
  /\ [][\A k \in DOMAIN counters : counters'[k] >= counters[k]]_vars

\* the action of the first of two issues of a page has been counted and the
\* action of the second issue has failed and is about to be counted
C19_Witness ==
  /\ action = "custom"
  /\ pc = "resolved"
  /\ result = "failed"
  /\ returned = {"triggered"}
  /\ Len(issues) = 2
  /\ idx = 2
  /\ counters = [total |-> 2, triggered |-> 1, skipped |-> 0, failed |-> 0]

\* C20: with onlyFirstPage the run emits the summary exactly once after the
\* last action of the first page; total is the number of records of the
\* first page that are not pull requests and equals
\* triggered + skipped + failed.
C20_FirstPageSummary ==
  onlyFirstPage =>
    /\ pc = "aborted" => listingFailed
    /\ summaries = (IF pc = "done" THEN 1 ELSE 0)
    /\ pc = "done" =>
         /\ pagesFetched <= 1
         /\ invoked = IssuesOfPage
         /\ logged = << counters >>
         /\ counters.total = IssuesOfPage
         /\ counters.total = Outcome(counters)

====
